---- MODULE Spec2Model ----
(***************************************************************************)
(* books_etl.py: the extract / transform / load job that copies the rows   *)
(* of table books changed since a cutoff into table books_processed.       *)
(* One run of main() is a walk through pc; a second run of the job on the  *)
(* same tables follows when the first has ended.                           *)
(***************************************************************************)
EXTENDS Integers, Sequences, FiniteSets, Bags, TLC

\* ------------------------------------------------------------------ bounds
MaxChunk == 2        \* largest ETL_CHUNKSIZE the environment sets
MaxAttempts == 2     \* largest DB_WRITE_ATTEMPTS the environment sets
MaxRuns == 2         \* runs of the job in one behaviour
InsertStmtRows == 1  \* rows per INSERT statement of to_sql (chunksize=1000), scaled

\* ------------------------------------------------------- program constants
ConnectAttempts == 3      \* stop_after_attempt(3) of connect_to_db
DefaultChunkSize == 5000  \* ETL_CHUNKSIZE default
DefaultWriteAttempts == 3 \* DB_WRITE_ATTEMPTS default
BudgetLimit == 50000      \* x < 500, in hundredths
NULL == 0                 \* a NULL / NaN book_id or number

\* ------------------------------------------------------------ environment
ABSENT == "<unset>"
RequiredKeys == {"DB_HOST", "DB_NAME", "DB_USER", "DB_PASSWORD"}

\* CFG(key, default=...): the variable's value, the default when it is unset.
CFG(env, key, default) == IF env[key] = ABSENT THEN default ELSE env[key]

DbParams(env) ==
  [DB_HOST |-> CFG(env, "DB_HOST", "localhost"),
   DB_NAME |-> CFG(env, "DB_NAME", "books_db"),
   DB_USER |-> CFG(env, "DB_USER", ""),
   DB_PASSWORD |-> CFG(env, "DB_PASSWORD", "")]

\* _required_env: the keys whose value is falsy; non-empty raises ValueError.
required_env_skips_password(p) == {k \in RequiredKeys \ {"DB_PASSWORD"} : p[k] = ""}
required_env(p) == {k \in RequiredKeys : p[k] = ""}

\* ---------------------------------------------------------- the CLI date
Digits == {"0", "1", "2", "3", "4", "5", "6", "7", "8", "9"}
DigitVal(c) ==
  CASE c = "0" -> 0 [] c = "1" -> 1 [] c = "2" -> 2 [] c = "3" -> 3 [] c = "4" -> 4
    [] c = "5" -> 5 [] c = "6" -> 6 [] c = "7" -> 7 [] c = "8" -> 8 [] OTHER -> 9

RECURSIVE NumVal(_)
NumVal(s) == IF s = <<>> THEN 0 ELSE 10 * NumVal(SubSeq(s, 1, Len(s) - 1)) + DigitVal(s[Len(s)])

\* int(text) of a decimal numeral with an optional sign.
IntOf(s) == IF s[1] = "-" THEN 0 - NumVal(Tail(s)) ELSE NumVal(s)

\* The numeral of n in 0..9, and the unset numeric variable.
Numeral(n) == <<CHOOSE c \in Digits : DigitVal(c) = n>>
Unset == <<>>

\* int(CFG("ETL_CHUNKSIZE", default="5000")), int(CFG("DB_WRITE_ATTEMPTS", default="3"))
ChunkSizeOf(env) ==
  IF env.ETL_CHUNKSIZE = Unset THEN DefaultChunkSize ELSE IntOf(env.ETL_CHUNKSIZE)
WriteAttemptsOf(env) ==
  IF env.DB_WRITE_ATTEMPTS = Unset THEN DefaultWriteAttempts ELSE IntOf(env.DB_WRITE_ATTEMPTS)

AllDigits(s) == s # <<>> /\ \A i \in 1..Len(s) : s[i] \in Digits

\* The fields of s between its "-" characters.
RECURSIVE SplitDash(_)
SplitDash(s) ==
  IF \A i \in 1..Len(s) : s[i] # "-" THEN <<s>>
  ELSE LET k == CHOOSE i \in 1..Len(s) : s[i] = "-" /\ \A j \in 1..(i - 1) : s[j] # "-"
       IN <<SubSeq(s, 1, k - 1)>> \o SplitDash(SubSeq(s, k + 1, Len(s)))

IsLeap(y) == (y % 4 = 0 /\ y % 100 # 0) \/ y % 400 = 0
DaysIn(y, m) ==
  IF m = 2 THEN (IF IsLeap(y) THEN 29 ELSE 28)
  ELSE IF m \in {4, 6, 9, 11} THEN 30 ELSE 31

\* A day number that orders dates as the calendar does.
DayNumber(y, m, d) == (y * 12 + (m - 1)) * 31 + (d - 1)

\* _validate_cli_date: datetime.strptime(date_str, "%Y-%m-%d"); ok is FALSE where
\* strptime raises ValueError, dt is midnight of the date as a day number.
validate_cli_date(s) ==
  LET f == SplitDash(s)
      bad == [ok |-> FALSE, dt |-> 0]
  IN IF Len(f) # 3 THEN bad
     ELSE IF ~(AllDigits(f[1]) /\ AllDigits(f[2]) /\ AllDigits(f[3])) THEN bad
     ELSE IF Len(f[1]) # 4 \/ Len(f[2]) > 2 \/ Len(f[3]) > 2 THEN bad
     ELSE LET y == NumVal(f[1])
              m == NumVal(f[2])
              d == NumVal(f[3])
          IN IF y < 1 \/ m < 1 \/ m > 12 \/ d < 1 \/ d > DaysIn(y, m) THEN bad
             ELSE [ok |-> TRUE, dt |-> DayNumber(y, m, d)]

\* ------------------------------------------------------------- the tables
Jan1 == <<"2", "0", "2", "5", "-", "0", "1", "-", "0", "1">>
Jan2 == <<"2", "0", "2", "5", "-", "0", "1", "-", "0", "2">>
DayFirst == <<"0", "1", "-", "0", "1", "-", "2", "0", "2", "5">>
NotADate == <<"n", "o", "t", "-", "a", "-", "d", "a", "t", "e">>

Book(id, title, price, day) ==
  [book_id |-> id, title |-> title, price |-> price, genre |-> "Fiction",
   stock_quantity |-> 10, last_updated |-> DayNumber(2025, 1, day)]

\* Rows that table books may hold: prices in hundredths.
CheapBook == Book(1, "Cheap Book", 10000, 1)
NoIdBook == Book(NULL, "No Id Book", 99999, 1)
BorderlineBook == Book(2, "Borderline Book", 49995, 2)
ReissuedBook == Book(1, "Reissued Book", 50000, 2)

\* The source snapshots of the model: book_id unique, with and without a NULL
\* book_id, and one snapshot where two rows share book_id 1.
Snapshots ==
  {{}, {CheapBook}, {CheapBook, BorderlineBook}, {CheapBook, NoIdBook, BorderlineBook},
   {NoIdBook}, {CheapBook, ReissuedBook}}

\* A row of books_processed.
Processed(id, title, orig, rounded, cat) ==
  [book_id |-> id, title |-> title, original_price |-> orig, rounded_price |-> rounded,
   genre |-> "Fiction", price_category |-> cat]

OldRow == Processed(1, "Old Title", NULL, NULL, "budget")
OtherRow == Processed(3, "Other Book", 20000, 20000, "budget")

\* The states books_processed may start in.
Destinations == {EmptyBag, SetToBag({OldRow}), SetToBag({OldRow, OtherRow})}

\* ----------------------------------------------------------------- extract
\* ORDER BY last_updated ASC, book_id ASC (PostgreSQL: NULL sorts last).
IdKey(id) == IF id = NULL THEN 1000000 ELSE id
RowBefore(a, b) ==
  \/ a.last_updated < b.last_updated
  \/ a.last_updated = b.last_updated /\ IdKey(a.book_id) <= IdKey(b.book_id)

RECURSIVE OrderRows(_)
OrderRows(S) ==
  IF S = {} THEN <<>>
  ELSE LET m == CHOOSE r \in S : \A o \in S : RowBefore(r, o)
       IN <<m>> \o OrderRows(S \ {m})

\* WHERE last_updated >= cutoff, in the query's order.
extract_books(books, cutoff) == OrderRows({r \in books : r.last_updated >= cutoff})

\* The chunk that extract_books_iter yields at position pos of the result.
FirstChunk(result, pos, chunksize) ==
  SubSeq(result, 1, IF chunksize > Len(result) THEN Len(result) ELSE chunksize)
NextChunk(result, pos, chunksize) ==
  SubSeq(result, pos + 1, IF pos + chunksize > Len(result) THEN Len(result) ELSE pos + chunksize)

\* --------------------------------------------------------------- transform
\* Series.round(1): to the nearest tenth, a tie to the even tenth; in hundredths.
Round1(p) ==
  LET q == p \div 10
      r == p % 10
  IN IF r < 5 THEN 10 * q
     ELSE IF r > 5 THEN 10 * (q + 1)
     ELSE IF q % 2 = 0 THEN 10 * q ELSE 10 * (q + 1)

price_category(x) == IF x < BudgetLimit THEN "budget" ELSE "premium"

TransformRowByPrice(r) ==
  [book_id |-> r.book_id, title |-> r.title, genre |-> r.genre,
   stock_quantity |-> r.stock_quantity, last_updated |-> r.last_updated,
   original_price |-> r.price, rounded_price |-> Round1(r.price),
   price_category |-> price_category(r.price)]

TransformRow(r) ==
  [book_id |-> r.book_id, title |-> r.title, genre |-> r.genre,
   stock_quantity |-> r.stock_quantity, last_updated |-> r.last_updated,
   original_price |-> r.price, rounded_price |-> Round1(r.price),
   price_category |-> price_category(Round1(r.price))]

transform_data(df) == IF df = <<>> THEN df ELSE [i \in 1..Len(df) |-> TransformRow(df[i])]

\* -------------------------------------------------------------------- load
\* df[cols].copy() of load_data.
ToLoad(df) ==
  [i \in 1..Len(df) |->
     Processed(df[i].book_id, df[i].title, df[i].original_price, df[i].rounded_price,
               df[i].price_category)]

\* to_load["book_id"].dropna().astype(int).unique()
BookIds(to_load) == {to_load[i].book_id : i \in 1..Len(to_load)} \ {NULL}

\* DELETE FROM books_processed WHERE book_id IN :ids
delete_nothing(table, ids) == table
delete_everything(table, ids) == EmptyBag
delete_existing_processed(table, ids) ==
  [r \in {x \in DOMAIN table : x.book_id \notin ids} |-> table[r]]

\* One INSERT statement of to_sql: rows from+1 .. upto of to_load.
RECURSIVE insert_first_per_id(_, _, _, _)
insert_first_per_id(table, to_load, from, upto) ==
  IF from >= upto THEN table
  ELSE insert_first_per_id(
         IF \E r \in DOMAIN table : r.book_id = to_load[from + 1].book_id THEN table
         ELSE table (+) SetToBag({to_load[from + 1]}),
         to_load, from + 1, upto)

RECURSIVE insert_processed(_, _, _, _)
insert_processed(table, to_load, from, upto) ==
  IF from >= upto THEN table
  ELSE insert_processed(table (+) SetToBag({to_load[from + 1]}), to_load, from + 1, upto)

StmtEnd(to_load, from) ==
  IF from + InsertStmtRows > Len(to_load) THEN Len(to_load) ELSE from + InsertStmtRows

\* engine.begin(): what the table holds after the block's commit, and after its rollback.
CommitDropped(committed, working) == committed
CommitResult(committed, working) == working
RollbackKeepsWrites(committed, working) == working
RollbackResult(committed, working) == committed

\* The table load_data(df) writes, given the table it finds: the early returns
\* of load_data, or the delete and the inserts of one _do_load.
LoadDataResult(table, df) ==
  IF df = <<>> \/ BookIds(ToLoad(df)) = {} THEN table
  ELSE insert_processed(delete_existing_processed(table, BookIds(ToLoad(df))),
                        ToLoad(df), 0, Len(df))

\* ------------------------------------------------------------------ errors
\* The failures the database driver reports, and the SQLAlchemy class of each.
ConnectErrors == {"network_unreachable", "authentication_failed"}
ProbeErrors == {"connection_dropped", "query_cancelled"}
ConfigErrors == {"missing_variable"}
ExtractErrors == {"connection_dropped"}
LoadErrors ==
  {"connection_dropped", "interface_failure", "constraint_violation", "type_mismatch"}

ExcClass(kind) ==
  CASE kind \in {"network_unreachable", "authentication_failed", "connection_dropped",
                  "query_cancelled"}
         -> "OperationalError"
    [] kind = "interface_failure" -> "InterfaceError"
    [] kind = "constraint_violation" -> "IntegrityError"
    [] kind = "type_mismatch" -> "DataError"
    [] kind = "missing_variable" -> "ValueError"
    [] OTHER -> "None"

\* The failures that retrying unchanged can cure.
Transient(kind) ==
  kind \in {"network_unreachable", "connection_dropped", "interface_failure", "query_cancelled"}

\* The failures after which the driver has closed the connection they came from.
Disconnect(kind) == kind \in {"connection_dropped", "interface_failure"}

\* retry_if_exception_type((OperationalError, InterfaceError))
retry_everything(kind) == TRUE
retry_nothing(kind) == FALSE
retry_if_exception_type(kind) == ExcClass(kind) \in {"OperationalError", "InterfaceError"}

\* stop_after_attempt(n): asked after an attempt has failed.
stop_one_early(attempt, n) == attempt >= n - 1
stop_after_attempt(attempt, n) == attempt >= n

\* The failures a step of the load transaction can end in.
ErrorsAt(step) ==
  CASE step = "TxBegin" -> {"connection_dropped", "interface_failure"}
    [] step = "TxDelete" -> {"connection_dropped", "interface_failure"}
    [] step = "TxInsert" -> LoadErrors
    [] step = "TxCommit" -> {"connection_dropped", "constraint_violation"}
    [] OTHER -> {}

\* ------------------------------------------------------------- connections
\* engine.connect() / engine.begin() check a connection out of the pool, the
\* end of their with block (or conn.close()) checks it in; n counts the
\* connections checked out.
checkin_forgotten(n) == n
checkout(n) == n + 1
checkin(n) == n - 1

\* The pool after a checkout (an idle connection is reused, else a new one is
\* opened), after a checkin, and after engine.dispose().
PoolAfterCheckout(n) == IF n > 0 THEN n - 1 ELSE n
PoolAfterCheckin(n) == n + 1
dispose(n) == 0

\* ------------------------------------------------------------------- state
VARIABLES
  argv,            \* sys.argv[1:], each argument a sequence of characters
  env,             \* the environment CFG reads
  books,           \* table books (the source snapshot)
  processed,       \* table books_processed, as committed
  pc,              \* where main() stands
  runNo,           \* which run of the job this is
  cutoff_dt,       \* main's cutoff_dt
  connAttempt,     \* attempts of connect_to_db made or under way
  netAttempts,     \* engine.connect() calls of connect_to_db in this run
  engine,          \* main's engine: "None" or "Engine"
  checkedOut,      \* connections checked out of the pool
  idle,            \* connections idle in the pool
  undisposed,      \* connections idle in the pools of engines main never got
  faults,          \* the stages at which the database may fail in this behaviour
  pos,             \* rows of the result the cursor has passed
  idx,             \* chunks the iterator has yielded
  chunk,           \* the chunk (or whole frame) in hand
  any_rows,
  extracted_total,
  loaded_total,
  loaded,          \* what the last load_data call returned, -1 while it runs or before any
  to_load,         \* load_data's to_load
  loadAttempt,     \* attempts of _do_load made or under way
  inserted,        \* rows of to_load the open transaction has inserted
  working,         \* the table as the open transaction sees it
  lastErr,         \* the last failure the driver reported, "none" before any
  raised,          \* the exception main() ended with, "none" otherwise
  failedAt,        \* the stage main() failed in
  exitCode,        \* the process's exit code, -1 while running
  processed0,      \* history: books_processed before the first run
  runStart,        \* history: books_processed when this run began
  attemptStart,    \* history: books_processed when this load attempt began
  committed,       \* history: chunks this run has committed
  prevOutcome      \* history: how the previous run ended, "none" for the first

vars ==
  <<argv, env, books, processed, pc, runNo, cutoff_dt, connAttempt, netAttempts, engine,
    checkedOut, idle, undisposed, faults, pos, idx, chunk, any_rows, extracted_total, loaded_total, loaded,
    to_load, loadAttempt, inserted, working, lastErr, raised, failedAt, exitCode, processed0,
    runStart, attemptStart, committed, prevOutcome>>

dataVars == <<argv, books, processed0, faults>>
runVars == <<pos, idx, chunk, any_rows, extracted_total, loaded_total>>
loadVars == <<loaded, to_load, loadAttempt, inserted, working, attemptStart>>
connVars == <<connAttempt, netAttempts, engine, checkedOut, idle, undisposed>>
endVars == <<raised, failedAt, exitCode>>

Terminal == {"Completed", "NoRows", "Failed"}
TxSteps == {"TxBegin", "TxDelete", "TxInsert", "TxCommit"}

use_chunks == ChunkSizeOf(env) > 0
Result == extract_books(books, cutoff_dt)

\* --------------------------------------------------------- initial states
Credentials(h, n, u, p) == [DB_HOST |-> h, DB_NAME |-> n, DB_USER |-> u, DB_PASSWORD |-> p]
GoodCredentials == Credentials("db.example", "books_db", "etl", "secret")

\* Environments where one required variable is unset or empty.
OneMissing ==
  {[GoodCredentials EXCEPT ![k] = v] : k \in RequiredKeys, v \in {ABSENT, ""}}

WithSizes(c, cs, wa) ==
  [DB_HOST |-> c.DB_HOST, DB_NAME |-> c.DB_NAME, DB_USER |-> c.DB_USER,
   DB_PASSWORD |-> c.DB_PASSWORD, ETL_CHUNKSIZE |-> cs, DB_WRITE_ATTEMPTS |-> wa]

ChunkSettings == {Numeral(n) : n \in 0..MaxChunk}
AttemptSettings == {Numeral(n) : n \in 0..MaxAttempts}

Arguments == {<<>>, <<Jan1>>, <<Jan2>>, <<DayFirst>>, <<NotADate>>, <<Jan1, Jan2>>}

\* The command lines and environments tried on one small table pair with a
\* database that may fail at any stage, and the table pairs, chunk sizes and
\* attempt counts tried under a good environment with a database that accepts
\* connections and may fail afterwards.
Scenarios ==
  [argv : Arguments, env : {WithSizes(c, Unset, Unset) : c \in OneMissing \cup {GoodCredentials}},
   books : {{CheapBook}}, processed : {SetToBag({OldRow})},
   faults : {{"connect", "extract", "load"}}]
  \cup
  [argv : {<<Jan1>>, <<Jan2>>},
   env : {WithSizes(GoodCredentials, cs, wa) : cs \in ChunkSettings, wa \in AttemptSettings},
   books : Snapshots, processed : Destinations, faults : {{"extract", "load"}}]

Init ==
  \E sc \in Scenarios :
    /\ argv = sc.argv
    /\ env = sc.env
    /\ books = sc.books
    /\ processed = sc.processed
    /\ processed0 = sc.processed
    /\ runStart = sc.processed
    /\ attemptStart = sc.processed
    /\ working = EmptyBag
    /\ pc = "Idle"
    /\ runNo = 1
    /\ cutoff_dt = 0
    /\ connAttempt = 0
    /\ netAttempts = 0
    /\ engine = "None"
    /\ checkedOut = 0
    /\ idle = 0
    /\ undisposed = 0
    /\ faults = sc.faults
    /\ pos = 0
    /\ idx = 0
    /\ chunk = <<>>
    /\ any_rows = FALSE
    /\ extracted_total = 0
    /\ loaded_total = 0
    /\ loaded = -1
    /\ to_load = <<>>
    /\ loadAttempt = 0
    /\ inserted = 0
    /\ lastErr = "none"
    /\ raised = "none"
    /\ failedAt = "none"
    /\ exitCode = -1
    /\ committed = 0
    /\ prevOutcome = "none"

\* ----------------------------------------------------------------- actions
\* The exit status of the process: sys.exit(0) or the end of main() after a
\* run that raised nothing, sys.exit(1) or an uncaught exception otherwise.
exit_status_zero(outcome) == 0
exit_status(outcome) == IF outcome = "Failed" THEN 1 ELSE 0

\* main() ends.
EndRun(outcome, stage, exc) ==
  /\ pc' = outcome
  /\ failedAt' = stage
  /\ raised' = exc
  /\ exitCode' = exit_status(outcome)

\* len(sys.argv) != 2: the usage text and sys.exit(1).
BadUsage ==
  /\ pc = "Idle"
  /\ Len(argv) # 1
  /\ EndRun("Failed", "usage", "SystemExit")
  /\ UNCHANGED <<dataVars, env, processed, runNo, cutoff_dt, connVars, runVars, loadVars,
                 lastErr, runStart, committed, prevOutcome>>

\* _validate_cli_date raises ValueError ahead of main's try block.
BadCutoff ==
  /\ pc = "Idle"
  /\ Len(argv) = 1
  /\ ~validate_cli_date(argv[1]).ok
  /\ EndRun("Failed", "cutoff", "ValueError")
  /\ UNCHANGED <<dataVars, env, processed, runNo, cutoff_dt, connVars, runVars, loadVars,
                 lastErr, runStart, committed, prevOutcome>>

\* The cutoff parses: main enters its try block and calls connect_to_db.
StartRun ==
  /\ pc = "Idle"
  /\ Len(argv) = 1
  /\ validate_cli_date(argv[1]).ok
  /\ cutoff_dt' = validate_cli_date(argv[1]).dt
  /\ pc' = "Connecting"
  /\ connAttempt' = 1
  /\ UNCHANGED <<dataVars, env, processed, runNo, netAttempts, engine, checkedOut, idle,
                 undisposed, runVars, loadVars, lastErr, endVars, runStart, committed,
                 prevOutcome>>

\* An attempt of connect_to_db raises: tenacity retries it or re-raises to main.
ConnectRaises(kind) ==
  /\ lastErr' = kind
  /\ IF retry_if_exception_type(kind) /\ ~stop_after_attempt(connAttempt, ConnectAttempts)
     THEN /\ connAttempt' = connAttempt + 1
          /\ UNCHANGED <<pc, endVars>>
     ELSE /\ EndRun("Failed", IF kind \in ConfigErrors THEN "config" ELSE "connect",
                    ExcClass(kind))
          /\ UNCHANGED connAttempt

\* _required_env finds a missing parameter: ValueError before create_engine.
ConnectConfigError ==
  /\ pc = "Connecting"
  /\ required_env(DbParams(env)) # {}
  /\ ConnectRaises("missing_variable")
  /\ UNCHANGED <<dataVars, env, processed, runNo, cutoff_dt, netAttempts, engine, checkedOut,
                 idle, undisposed, runVars, loadVars, runStart, committed, prevOutcome>>

\* create_engine, then engine.connect() of the probe fails: no connection was
\* opened.
ConnectFail ==
  /\ pc = "Connecting"
  /\ "connect" \in faults
  /\ required_env(DbParams(env)) = {}
  /\ netAttempts' = netAttempts + 1
  /\ \E kind \in ConnectErrors : ConnectRaises(kind)
  /\ UNCHANGED <<dataVars, env, processed, runNo, cutoff_dt, engine, checkedOut, idle,
                 undisposed, runVars, loadVars, runStart, committed, prevOutcome>>

\* create_engine, engine.connect() succeeds and SELECT 1 fails: the with block
\* checks the connection in to the pool of the attempt's engine unless the
\* failure closed it; connect_to_db raises and that engine is dropped as it is.
ProbeFail ==
  /\ pc = "Connecting"
  /\ "connect" \in faults
  /\ required_env(DbParams(env)) = {}
  /\ netAttempts' = netAttempts + 1
  /\ \E kind \in ProbeErrors :
       /\ ConnectRaises(kind)
       /\ undisposed' = IF Disconnect(kind) THEN undisposed ELSE PoolAfterCheckin(undisposed)
  /\ UNCHANGED <<dataVars, env, processed, runNo, cutoff_dt, engine, checkedOut, idle,
                 runVars, loadVars, runStart, committed, prevOutcome>>

\* The garbage collector reaches the engines connect_to_db dropped.
Finalise ==
  /\ pc \notin {"Idle", "Completed", "NoRows", "Failed"}
  /\ undisposed > 0
  /\ undisposed' = dispose(undisposed)
  /\ UNCHANGED <<dataVars, env, processed, pc, runNo, cutoff_dt, connAttempt, netAttempts,
                 engine, checkedOut, idle, runVars, loadVars, lastErr, endVars, runStart,
                 committed, prevOutcome>>

\* The probe succeeds; main reads ETL_CHUNKSIZE and picks its mode.
ConnectOk ==
  /\ pc = "Connecting"
  /\ required_env(DbParams(env)) = {}
  /\ netAttempts' = netAttempts + 1
  /\ engine' = "Engine"
  /\ idle' = PoolAfterCheckin(PoolAfterCheckout(idle))
  /\ pc' = IF use_chunks THEN "Iterating" ELSE "ExtractAll"
  /\ UNCHANGED <<dataVars, env, processed, runNo, cutoff_dt, connAttempt, checkedOut,
                 undisposed, runVars, loadVars, lastErr, endVars, runStart, committed,
                 prevOutcome>>

\* load_data up to _do_load, for the frame df of source rows just extracted:
\* nothing to do (it returns 0), or the first attempt of _do_load begins.
NothingToLoad(df) == df = <<>> \/ BookIds(ToLoad(transform_data(df))) = {}

ReturnZero(df) ==
  /\ to_load' = ToLoad(transform_data(df))
  /\ loaded' = 0
  /\ UNCHANGED <<loadAttempt, inserted, working, attemptStart>>

EnterLoad(df) ==
  /\ to_load' = ToLoad(transform_data(df))
  /\ loaded' = -1
  /\ loadAttempt' = 1
  /\ inserted' = 0
  /\ working' = processed
  /\ attemptStart' = processed
  /\ pc' = "TxBegin"

\* The for loop of main asks extract_books_iter for a chunk and gets one.
YieldChunk ==
  /\ pc = "Iterating"
  /\ pos < Len(Result) \/ (idx = 0 /\ Result = <<>>)
  /\ LET c == NextChunk(Result, pos, ChunkSizeOf(env))
     IN /\ chunk' = c
        /\ pos' = pos + Len(c)
        /\ idx' = idx + 1
        /\ any_rows' = (any_rows \/ c # <<>>)
        /\ extracted_total' = extracted_total + Len(c)
        /\ IF c = <<>>
           THEN UNCHANGED <<pc, loadVars>>
           ELSE IF NothingToLoad(c)
           THEN ReturnZero(c) /\ UNCHANGED pc
           ELSE EnterLoad(c)
  /\ checkedOut' = IF idx = 0 THEN checkout(checkedOut) ELSE checkedOut
  /\ idle' = IF idx = 0 THEN PoolAfterCheckout(idle) ELSE idle
  /\ UNCHANGED <<dataVars, env, processed, runNo, cutoff_dt, connAttempt, netAttempts, engine,
                 undisposed, loaded_total, lastErr, endVars, runStart, committed, prevOutcome>>

\* The iterator is exhausted: its finally closes the connection, main ends
\* and its finally disposes of the engine.
EndOfChunks ==
  /\ pc = "Iterating"
  /\ idx > 0
  /\ pos >= Len(Result)
  /\ IF any_rows THEN EndRun("Completed", "none", "none") ELSE EndRun("NoRows", "none", "none")
  /\ checkedOut' = checkin(checkedOut)
  /\ idle' = dispose(PoolAfterCheckin(idle))
  /\ UNCHANGED <<dataVars, env, processed, runNo, cutoff_dt, connAttempt, netAttempts, engine,
                 undisposed, runVars, loadVars, lastErr, runStart, committed, prevOutcome>>

\* engine.connect() of extract_books_iter fails, or reading the query does
\* (then wrapped in RuntimeError); main ends in failure.
ExtractIterFail ==
  /\ pc = "Iterating"
  /\ "extract" \in faults
  /\ \E kind \in ExtractErrors :
       /\ lastErr' = kind
       /\ \/ idx = 0 /\ EndRun("Failed", "extract", ExcClass(kind))
          \/ EndRun("Failed", "extract", "RuntimeError")
  /\ checkedOut' = IF idx = 0 THEN checkedOut ELSE checkin(checkedOut)
  /\ idle' = dispose(idle)
  /\ UNCHANGED <<dataVars, env, processed, runNo, cutoff_dt, connAttempt, netAttempts, engine,
                 undisposed, runVars, loadVars, runStart, committed, prevOutcome>>

\* extract_books reads the whole result; main transforms and loads it.
ExtractAll ==
  /\ pc = "ExtractAll"
  /\ chunk' = Result
  /\ IF Result = <<>>
     THEN /\ EndRun("NoRows", "none", "none")
          /\ idle' = dispose(idle)
          /\ UNCHANGED <<extracted_total, loadVars>>
     ELSE IF NothingToLoad(Result)
     THEN /\ EndRun("Completed", "none", "none")
          /\ idle' = dispose(idle)
          /\ extracted_total' = Len(Result)
          /\ ReturnZero(Result)
     ELSE /\ EnterLoad(Result)
          /\ UNCHANGED <<idle, extracted_total, endVars>>
  /\ UNCHANGED <<dataVars, env, processed, runNo, cutoff_dt, connAttempt, netAttempts, engine,
                 checkedOut, undisposed, pos, idx, any_rows, loaded_total, lastErr, runStart,
                 committed, prevOutcome>>

\* extract_books fails (wrapped in RuntimeError); main ends in failure.
ExtractAllFail ==
  /\ pc = "ExtractAll"
  /\ "extract" \in faults
  /\ \E kind \in ExtractErrors : lastErr' = kind
  /\ EndRun("Failed", "extract", "RuntimeError")
  /\ idle' = dispose(idle)
  /\ UNCHANGED <<dataVars, env, processed, runNo, cutoff_dt, connAttempt, netAttempts, engine,
                 checkedOut, undisposed, runVars, loadVars, runStart, committed, prevOutcome>>

\* engine.begin(): a connection is checked out and a transaction opens.
TxBegin ==
  /\ pc = "TxBegin"
  /\ working' = processed
  /\ attemptStart' = processed
  /\ inserted' = 0
  /\ UNCHANGED loaded
  /\ checkedOut' = checkout(checkedOut)
  /\ idle' = PoolAfterCheckout(idle)
  /\ pc' = "TxDelete"
  /\ UNCHANGED <<dataVars, env, processed, runNo, cutoff_dt, connAttempt, netAttempts, engine,
                 undisposed, runVars, to_load, loadAttempt, lastErr, endVars, runStart, committed,
                 prevOutcome>>

\* _delete_existing_processed(conn, book_ids)
TxDelete ==
  /\ pc = "TxDelete"
  /\ working' = delete_existing_processed(working, BookIds(to_load))
  /\ pc' = "TxInsert"
  /\ UNCHANGED <<dataVars, env, processed, runNo, cutoff_dt, connVars, runVars, loaded, to_load,
                 loadAttempt, inserted, attemptStart, lastErr, endVars, runStart, committed,
                 prevOutcome>>

\* _insert_processed(conn, to_load): the next INSERT statement of to_sql.
TxInsert ==
  /\ pc = "TxInsert"
  /\ working' = insert_processed(working, to_load, inserted, StmtEnd(to_load, inserted))
  /\ inserted' = StmtEnd(to_load, inserted)
  /\ pc' = IF StmtEnd(to_load, inserted) >= Len(to_load) THEN "TxCommit" ELSE "TxInsert"
  /\ UNCHANGED <<dataVars, env, processed, runNo, cutoff_dt, connVars, runVars, loaded, to_load,
                 loadAttempt, attemptStart, lastErr, endVars, runStart, committed, prevOutcome>>

\* The with block ends: COMMIT; _do_load returns len(to_load) and main goes on.
TxCommit ==
  /\ pc = "TxCommit"
  /\ processed' = CommitResult(processed, working)
  /\ committed' = committed + 1
  /\ loaded' = Len(to_load)
  /\ IF use_chunks
     THEN /\ loaded_total' = loaded_total + Len(to_load)
          /\ pc' = "Iterating"
          /\ checkedOut' = checkin(checkedOut)
          /\ idle' = PoolAfterCheckin(idle)
          /\ UNCHANGED <<extracted_total, endVars>>
     ELSE /\ loaded_total' = Len(to_load)
          /\ extracted_total' = Len(chunk)
          /\ EndRun("Completed", "none", "none")
          /\ checkedOut' = checkin(checkedOut)
          /\ idle' = dispose(PoolAfterCheckin(idle))
  /\ UNCHANGED <<dataVars, env, runNo, cutoff_dt, connAttempt, netAttempts, engine, undisposed,
                 pos, idx,
                 chunk, any_rows, to_load, loadAttempt, inserted, working, attemptStart,
                 lastErr, runStart, prevOutcome>>

\* A step of the transaction fails: the with block rolls back and checks its
\* connection in (a failed engine.begin() has none), tenacity retries _do_load
\* from its start or load_data raises RuntimeError to main; there the for loop
\* is left, which closes the iterator and with it the iterator's connection,
\* and main's finally disposes of the engine.
TxFail ==
  /\ pc \in TxSteps
  /\ "load" \in faults
  /\ \E kind \in ErrorsAt(pc) :
       /\ lastErr' = kind
       /\ IF retry_if_exception_type(kind)
             /\ ~stop_after_attempt(loadAttempt, WriteAttemptsOf(env))
          THEN /\ loadAttempt' = loadAttempt + 1
               /\ pc' = "TxBegin"
               /\ checkedOut' = IF pc = "TxBegin" THEN checkedOut ELSE checkin(checkedOut)
               /\ idle' = IF pc = "TxBegin" \/ Disconnect(kind) THEN idle
                          ELSE PoolAfterCheckin(idle)
               /\ UNCHANGED endVars
          ELSE /\ EndRun("Failed", "load", "RuntimeError")
               /\ checkedOut' =
                    LET left == IF pc = "TxBegin" THEN checkedOut ELSE checkin(checkedOut)
                    IN IF use_chunks THEN checkin(left) ELSE left
               /\ idle' = dispose(idle)
               /\ UNCHANGED loadAttempt
  /\ processed' = IF pc = "TxBegin" THEN processed ELSE RollbackResult(processed, working)
  /\ UNCHANGED <<dataVars, env, runNo, cutoff_dt, connAttempt, netAttempts, engine, undisposed,
                 runVars, loaded, to_load, inserted, working, attemptStart, runStart, committed,
                 prevOutcome>>

\* The job is started again on the same tables with the same command line; the
\* operator may have changed the chunk size.
NextRun ==
  /\ pc \in Terminal
  /\ runNo < MaxRuns
  /\ runNo' = runNo + 1
  /\ prevOutcome' = pc
  /\ runStart' = processed
  /\ \E cs \in ChunkSettings \cup {env.ETL_CHUNKSIZE} :
       env' = [env EXCEPT !.ETL_CHUNKSIZE = cs]
  /\ pc' = "Idle"
  /\ cutoff_dt' = 0
  /\ connAttempt' = 0
  /\ netAttempts' = 0
  /\ engine' = "None"
  /\ checkedOut' = 0
  /\ idle' = 0
  /\ undisposed' = 0
  /\ pos' = 0
  /\ idx' = 0
  /\ chunk' = <<>>
  /\ any_rows' = FALSE
  /\ extracted_total' = 0
  /\ loaded_total' = 0
  /\ loaded' = -1
  /\ to_load' = <<>>
  /\ loadAttempt' = 0
  /\ inserted' = 0
  /\ working' = EmptyBag
  /\ attemptStart' = processed
  /\ lastErr' = "none"
  /\ raised' = "none"
  /\ failedAt' = "none"
  /\ exitCode' = -1
  /\ committed' = 0
  /\ UNCHANGED <<dataVars, processed>>

Next ==
  \/ BadUsage
  \/ BadCutoff
  \/ StartRun
  \/ ConnectConfigError
  \/ ConnectFail
  \/ ProbeFail
  \/ Finalise
  \/ ConnectOk
  \/ YieldChunk
  \/ EndOfChunks
  \/ ExtractIterFail
  \/ ExtractAll
  \/ ExtractAllFail
  \/ TxBegin
  \/ TxDelete
  \/ TxInsert
  \/ TxCommit
  \/ TxFail
  \/ NextRun

Spec == Init /\ [][Next]_vars

\* ------------------------------------------------------------------ claims
\* The rows of a frame as a bag.
FrameBag(frame) ==
  [r \in {frame[i] : i \in 1..Len(frame)} |-> Cardinality({i \in 1..Len(frame) : frame[i] = r})]

\* The rows of a table, and of a frame, that carry book_id id.
TableRowsOf(table, id) == [r \in {x \in DOMAIN table : x.book_id = id} |-> table[r]]
FrameRowsOf(frame, id) == TableRowsOf(FrameBag(frame), id)

\* load_data has just returned the row count of a committed batch.
JustLoaded == loaded > 0 /\ pc \in {"Iterating", "Completed"}

\* book_id is unique among the source rows that have one.
UniqueIds == \A a, b \in books : a # b /\ a.book_id = b.book_id => a.book_id = NULL

\* The table after a run has loaded the chunks of result from position from up
\* to position upto, one load_data per chunk.
RECURSIVE LoadChunks(_, _, _, _, _)
LoadChunks(table, result, from, upto, chunksize) ==
  IF from >= upto THEN table
  ELSE LET c == NextChunk(result, from, chunksize)
       IN LoadChunks(LoadDataResult(table, transform_data(c)), result, from + Len(c), upto,
                     chunksize)

\* The table a successful run in the current mode leaves, started on table.
RunResult(table) ==
  IF use_chunks THEN LoadChunks(table, Result, 0, Len(Result), ChunkSizeOf(env))
  ELSE LoadDataResult(table, transform_data(Result))

\* C1: loading a batch a second time leaves books_processed as the first
\* successful load of that batch left it.
LoadIsIdempotent ==
  JustLoaded => LoadDataResult(processed, transform_data(chunk)) = processed

\* C2: after a successful load_data(B), for every book_id of B the rows of
\* books_processed with that book_id are exactly B's rows for it; no stale
\* row of that book_id is left.
LastWriterWins ==
  JustLoaded =>
    \A id \in BookIds(to_load) : TableRowsOf(processed, id) = FrameRowsOf(to_load, id)

LastWriterWinsWitness ==
  /\ JustLoaded
  /\ runNo = 1
  /\ OldRow \in DOMAIN processed0
  /\ OldRow.book_id \in BookIds(to_load)
  /\ OldRow \notin DOMAIN processed

\* C3: while a load attempt runs, and when one of its steps has failed,
\* books_processed is as it was when the attempt began; the only change ever
\* committed to it is the whole of a batch: its ids deleted and all of its
\* rows inserted.
AllOrNothing ==
  [][/\ (pc' \in TxSteps \/ (pc' = "Failed" /\ failedAt' = "load"))
          => processed' = attemptStart'
     /\ processed' # processed
          => /\ pc = "TxCommit"
             /\ processed' = insert_processed(
                               delete_existing_processed(processed, BookIds(to_load)),
                               to_load, 0, Len(to_load))]_vars

AllOrNothingWitness ==
  /\ pc = "Failed"
  /\ failedAt = "load"
  /\ 0 < inserted
  /\ inserted < Len(to_load)
  /\ OldRow \in DOMAIN processed
  /\ OldRow \notin DOMAIN working
  /\ processed = attemptStart

\* C4: a load attempt that fails with a transient error is followed by a new
\* attempt of the whole transaction, begun from the committed table; limit
\* bounds the attempts of one load_data call; a call that succeeds returns the
\* batch's row count and raises nothing; a call whose attempts all fail with
\* transient errors raises the load error after limit attempts.
LoadRetryClaim(limit) ==
  /\ loadAttempt <= limit
  /\ pc = "TxDelete" => working = processed /\ inserted = 0
  /\ pc = "TxCommit" =>
       working = insert_processed(delete_existing_processed(processed, BookIds(to_load)),
                                  to_load, 0, Len(to_load))
  /\ JustLoaded => loaded = Len(to_load) /\ raised = "none"
  /\ (pc = "Failed" /\ failedAt = "load")
       => raised = "RuntimeError" /\ (Transient(lastErr) => loadAttempt = limit)

\* C4 as amended: the limit is the configured DB_WRITE_ATTEMPTS (default 3),
\* and one attempt when that is below 1.
LoadRetriesTransient ==
  LoadRetryClaim(IF WriteAttemptsOf(env) < 1 THEN 1 ELSE WriteAttemptsOf(env))

\* C4 as stated: the limit is the configured DB_WRITE_ATTEMPTS.
LoadRetriesWithinConfigured == LoadRetryClaim(WriteAttemptsOf(env))

LoadRetriesTransientWitness ==
  /\ JustLoaded
  /\ loadAttempt = 2
  /\ Transient(lastErr)
  /\ WriteAttemptsOf(env) = 2

\* C5: a load attempt that fails with a non-transient error is the last attempt
\* of its load_data call: the call raises the load error at once and main fails.
LoadNeverRetriesNonTransient ==
  [][(/\ pc \in TxSteps
      /\ lastErr' \in LoadErrors
      /\ ~Transient(lastErr')
      /\ (pc' = "Failed" \/ loadAttempt' # loadAttempt))
       => /\ pc' = "Failed"
          /\ failedAt' = "load"
          /\ raised' = "RuntimeError"
          /\ loadAttempt' = loadAttempt]_vars

LoadNeverRetriesNonTransientWitness ==
  /\ pc = "Failed"
  /\ failedAt = "load"
  /\ lastErr = "constraint_violation"
  /\ loadAttempt = 1
  /\ WriteAttemptsOf(env) > 1
  /\ raised = "RuntimeError"

\* C6: when the load of a chunk fails for good in a chunked run, the run has
\* failed with exit code 1 and books_processed holds exactly what the loads of
\* the chunks before it left: their rows are there, and nothing of the failed
\* chunk or of a later one.
NoCrossBatchRollback ==
  (pc = "Failed" /\ failedAt = "load" /\ use_chunks) =>
    /\ exitCode = 1
    /\ processed = LoadChunks(runStart, Result, 0, pos - Len(chunk), ChunkSizeOf(env))
    /\ UniqueIds =>
         \A i \in 1..(pos - Len(chunk)) :
           LET c == NextChunk(Result, ((i - 1) \div ChunkSizeOf(env)) * ChunkSizeOf(env),
                              ChunkSizeOf(env))
           IN ~NothingToLoad(c) => ToLoad(transform_data(<<Result[i]>>))[1] \in DOMAIN processed

NoCrossBatchRollbackWitness ==
  /\ pc = "Failed"
  /\ failedAt = "load"
  /\ use_chunks
  /\ committed > 0
  /\ 0 < inserted
  /\ processed # runStart
  /\ working # processed

\* C7: for a source with unique book_ids, a run that failed followed by a run
\* that completes leaves books_processed as one successful run would have
\* left the table the failed run started from.
RunsAreResumable ==
  (pc = "Completed" /\ runNo = 2 /\ prevOutcome = "Failed" /\ UniqueIds) =>
    processed = RunResult(processed0)

\* C8: for a source with unique book_ids, a run that completes, chunked or not,
\* leaves books_processed as the whole-table load of the same result leaves it.
ModesAreEquivalent ==
  (pc = "Completed" /\ runNo = 1 /\ UniqueIds) =>
    processed = LoadDataResult(processed0, transform_data(Result))

\* The command line's cutoff is no YYYY-MM-DD date.
BadDates == {DayFirst, NotADate}
BadCutoffGiven == Len(argv) = 1 /\ argv[1] \in BadDates

\* A run under a configuration error never attempts a connection, never
\* retries, and can only end in failure with exit code 1.
FailsBeforeNetwork ==
  /\ netAttempts = 0
  /\ connAttempt <= 1
  /\ engine = "None"
  /\ pc \in {"Idle", "Connecting", "Failed"}
  /\ pc = "Failed" => exitCode = 1 /\ failedAt \in {"usage", "cutoff", "config"}

\* C9 as amended: a run whose cutoff is no valid YYYY-MM-DD date, whose DB_USER
\* or DB_PASSWORD is unset or empty, or whose DB_HOST or DB_NAME is set to the
\* empty string, fails without a connection attempt and without a retry.
ConfigErrorsFailBeforeNetwork ==
  (\/ BadCutoffGiven
   \/ env.DB_USER \in {ABSENT, ""}
   \/ env.DB_PASSWORD \in {ABSENT, ""}
   \/ env.DB_HOST = ""
   \/ env.DB_NAME = "") => FailsBeforeNetwork

\* C9 as stated: also when DB_HOST or DB_NAME is unset.
MissingParametersFailBeforeNetwork ==
  (BadCutoffGiven \/ \E k \in RequiredKeys : env[k] \in {ABSENT, ""}) => FailsBeforeNetwork

ConfigErrorsFailBeforeNetworkWitness ==
  /\ pc = "Failed"
  /\ failedAt = "config"
  /\ env.DB_PASSWORD = ABSENT
  /\ connAttempt = 1
  /\ netAttempts = 0

\* C10: an authentication failure of connect_to_db is not retried: the first
\* attempt is the only one and the run has failed.
ConnectNeverRetriesAuthFailure ==
  lastErr = "authentication_failed" => pc = "Failed" /\ connAttempt = 1

\* C11: in every terminal state of a run (completed, ended for want of rows,
\* or failed at any stage) every connection the run opened has been released:
\* none is checked out, and none sits idle in the pool of main's engine or of
\* an engine connect_to_db created.
EverythingReleased ==
  pc \in Terminal => checkedOut = 0 /\ idle = 0 /\ undisposed = 0

\* C12: a run has no exit code before it ends; it ends with exit code 0 exactly
\* when it raised nothing, that is when it completed or found no rows, and a
\* run that found no rows committed nothing and left books_processed as it
\* was; a run that failed, at whatever stage, ends with exit code 1.
ExitCodeTellsOutcome ==
  /\ pc \notin Terminal => exitCode = -1
  /\ pc \in Terminal =>
       /\ exitCode \in {0, 1}
       /\ exitCode = 0 <=> (raised = "none" /\ failedAt = "none")
       /\ exitCode = 0 <=> pc \in {"Completed", "NoRows"}
  /\ pc = "NoRows" => committed = 0 /\ processed = runStart /\ extracted_total = 0
  /\ pc = "Failed" =>
       /\ exitCode = 1
       /\ failedAt \in {"usage", "cutoff", "config", "connect", "extract", "load"}

ExitCodeTellsOutcomeWitness ==
  /\ pc = "NoRows"
  /\ exitCode = 0
  /\ prevOutcome = "Failed"
  /\ processed = processed0
  /\ OldRow \in DOMAIN processed

\* The attempts tenacity allows one load_data call.
WriteLimit == IF WriteAttemptsOf(env) < 1 THEN 1 ELSE WriteAttemptsOf(env)

\* A run that failed on a transient error at stage failed after as many
\* attempts as that stage's retry allows.
ExhaustedAt(stage) ==
  (pc = "Failed" /\ Transient(lastErr) /\ failedAt = stage) =>
    /\ stage = "connect" => connAttempt = ConnectAttempts
    /\ stage = "load" => loadAttempt = WriteLimit
    /\ stage \in {"connect", "load"}

\* C13 as amended: a transient error raised by connect_to_db or by a load
\* attempt fails the run only when the attempts of that operation are
\* exhausted; an error of the extract, transient or not, fails the run at once.
TransientAbsorbedByConnectAndLoad ==
  /\ ExhaustedAt("connect")
  /\ ExhaustedAt("load")
  /\ (pc = "Failed" /\ failedAt = "extract") =>
       lastErr \in ExtractErrors /\ connAttempt >= 1 /\ loadAttempt <= WriteLimit

\* C13 as stated: the same of a transient error raised by the extract.
TransientAbsorbedEverywhere ==
  /\ ExhaustedAt("connect")
  /\ ExhaustedAt("load")
  /\ ExhaustedAt("extract")

TransientAbsorbedWitness ==
  /\ pc = "Completed"
  /\ connAttempt = ConnectAttempts
  /\ loadAttempt > 1
  /\ Transient(lastErr)
  /\ loaded > 0

\* C14: every transformed row keeps its price as original_price, carries as
\* rounded_price the tenth nearest to it, and is "budget" when the rounded
\* price is below 500 and "premium" otherwise; 499.95 rounds to 500.0 and is
\* "premium".
PriceClassification ==
  /\ Len(to_load) = Len(chunk)
  /\ \A i \in 1..Len(to_load) :
       LET p == chunk[i].price
           row == to_load[i]
       IN /\ row.original_price = p
          /\ row.rounded_price % 10 = 0
          /\ row.rounded_price - p \in -5..5
          /\ row.price_category = IF row.rounded_price < BudgetLimit THEN "budget" ELSE "premium"
          /\ p = 49995 => row.rounded_price = 50000 /\ row.price_category = "premium"

PriceClassificationWitness ==
  /\ JustLoaded
  /\ \E i \in 1..Len(to_load) :
       /\ chunk[i] = BorderlineBook
       /\ to_load[i].rounded_price = 50000
       /\ to_load[i].price_category = "premium"
       /\ to_load[i] \in DOMAIN processed

\* C15: the chunks of a chunked run are pulled in the order of the result,
\* each directly after the one before it; a chunk is pulled only while no load
\* is under way, so the load of the chunk before it has committed or the run
\* has failed; the batch in the transaction is always the chunk pulled last.
BatchesAreSequential ==
  [][/\ (pos' # pos /\ pc' # "Idle") =>
          /\ pc = "Iterating"
          /\ chunk' = SubSeq(Result, pos + 1, pos')
          /\ Len(chunk') <= ChunkSizeOf(env)
          /\ idx' = idx + 1
     /\ (chunk' # chunk /\ pc' # "Idle") => pc \notin TxSteps
     /\ pc' \in TxSteps =>
          /\ to_load' = ToLoad(transform_data(chunk'))
          /\ use_chunks => chunk' = SubSeq(Result, pos' - Len(chunk') + 1, pos')
     /\ (pc \in TxSteps /\ pc' \notin TxSteps) =>
          (processed' # processed \/ loaded' = Len(to_load) \/ pc' = "Failed")]_vars

BatchesAreSequentialWitness ==
  /\ pc = "TxInsert"
  /\ idx >= 2
  /\ committed = 1
  /\ pos = 3
  /\ Len(Result) = 3
  /\ chunk = <<Result[3]>>
  /\ processed # runStart

\* C16: no row of books_processed that load_data added has a NULL book_id, and
\* the count load_data returns is the number of rows it inserted.
NullIdsNeverLoaded ==
  /\ \A r \in DOMAIN processed : r.book_id = NULL => r \in DOMAIN processed0
  /\ JustLoaded =>
       loaded = BagCardinality(processed)
                  - BagCardinality(delete_existing_processed(attemptStart, BookIds(to_load)))

\* Two rows of the frame share a book_id.
HasDuplicateIds(frame) ==
  \E i, j \in 1..Len(frame) :
    i # j /\ frame[i].book_id = frame[j].book_id /\ frame[i].book_id # NULL

\* C17: a successful load_data of a batch in which a book_id occurs more than
\* once returns the batch's full row count, and books_processed then holds
\* every row of the batch, as many rows per book_id as the batch has.
DuplicateIdsTolerated ==
  (JustLoaded /\ HasDuplicateIds(to_load)) =>
    /\ loaded = Len(to_load)
    /\ \A i \in 1..Len(to_load) :
         /\ to_load[i] \in DOMAIN processed
         /\ to_load[i].book_id # NULL =>
              BagCardinality(TableRowsOf(processed, to_load[i].book_id))
                = Cardinality({j \in 1..Len(to_load) : to_load[j].book_id = to_load[i].book_id})

DuplicateIdsToleratedWitness ==
  /\ JustLoaded
  /\ HasDuplicateIds(to_load)
  /\ loaded = 2
  /\ BagCardinality(TableRowsOf(processed, 1)) = 2
  /\ OldRow \in DOMAIN processed0

\* No two rows of the source share a book_id, and neither do two rows of the
\* books_processed the first run found.
SourceIdsUnique == \A a, b \in books : a # b => a.book_id # b.book_id
OneRowPerId(table) ==
  \A r \in DOMAIN table : BagCardinality(TableRowsOf(table, r.book_id)) <= 1

\* C18: when book_id is unique in the source and books_processed began with at
\* most one row per book_id, books_processed holds at most one row per book_id
\* at every moment of every run, whatever the cutoffs, chunk sizes, failures
\* and retries of the runs before.
NoDuplicatesAcrossRuns ==
  (SourceIdsUnique /\ OneRowPerId(processed0)) => OneRowPerId(processed)

\* The connections a run holds checked out: the iterator's, from its first
\* chunk to its end, and the load transaction's, from engine.begin() to the
\* end of the with block.
IteratorConnections == IF use_chunks /\ idx > 0 /\ pc \notin Terminal THEN 1 ELSE 0
LoadConnections == IF pc \in {"TxDelete", "TxInsert", "TxCommit"} THEN 1 ELSE 0

\* C19 as amended: at every moment at most one connection is checked out in a
\* whole-table run and at most two in a chunked run: the iterator's, and
\* beside it the load transaction's while a batch is loaded.
ConnectionsInUse ==
  /\ checkedOut = IteratorConnections + LoadConnections
  /\ checkedOut <= 2
  /\ ~use_chunks => checkedOut <= 1
  /\ checkedOut = 2 => use_chunks /\ pc \in TxSteps /\ chunk # <<>>

\* C19 as stated: at every moment at most one connection is checked out.
SingleConnection == checkedOut <= 1

ConnectionsInUseWitness ==
  /\ pc = "TxInsert"
  /\ use_chunks
  /\ idx = 2
  /\ loadAttempt = 2
  /\ checkedOut = 2

\* The book_ids of a frame's rows, NULL included, and of a table's rows.
IdsIn(frame) == {frame[i].book_id : i \in 1..Len(frame)}
IdsOf(table) == {r.book_id : r \in DOMAIN table}

\* C20: while load_data(B) runs, after it has returned and after it has
\* failed, with or without retries, the rows of books_processed whose book_id
\* does not occur in B are the rows the call found; so a run changes no row
\* whose book_id is not in its result.
LoadLeavesOtherIdsAlone ==
  /\ (pc \in TxSteps \/ JustLoaded \/ (pc = "Failed" /\ failedAt = "load")) =>
       \A id \in (IdsOf(attemptStart) \cup IdsOf(processed)) \ IdsIn(to_load) :
         TableRowsOf(processed, id) = TableRowsOf(attemptStart, id)
  /\ \A id \in (IdsOf(runStart) \cup IdsOf(processed)) \ IdsIn(Result) :
       TableRowsOf(processed, id) = TableRowsOf(runStart, id)

LoadLeavesOtherIdsAloneWitness ==
  /\ JustLoaded
  /\ loadAttempt > 1
  /\ OldRow \in DOMAIN attemptStart
  /\ OldRow \notin DOMAIN processed
  /\ OtherRow \in DOMAIN processed
  /\ OtherRow.book_id \notin IdsIn(to_load)

====
